---- MODULE Spec2Model ----
(***************************************************************************)
(* A model of the synchronisation and build-orchestration engine of        *)
(* monaca-lib (src/src/monaca.js):                                         *)
(*   - _filterFiles, the tree differ                    (SpecFilter)       *)
(*   - the transfer batch of uploadProject / downloadProject (SpecBatch)   *)
(*   - buildProject and its poller pollBuild            (SpecBuild)        *)
(* The three parts share no state; each has its own specification, and the *)
(* variables of the other parts stay at their idle values.                 *)
(***************************************************************************)
EXTENDS Integers, Sequences, FiniteSets, TLC

VARIABLES
    \* ---- _filterFiles ----
    fpc,            \* "idle" | "ready" (trees built) | "done" (_filterFiles returned)
    dst,            \* the destination tree object, mutated in place
    src,            \* the source tree object
    dst0,           \* history: the destination tree as passed in
    \* ---- transfer batch (uploadProject / downloadProject) ----
    bpc,            \* "idle" | "ready" (trees diffed, keys known) | "running"
    bDir,           \* "upload" | "download"
    bN,             \* totalLength: number of keys of the transfer set
    tstate,         \* per task: "none" | "inflight" | "handled" | "done"
    tres,           \* per task: "none" | "ok" | "fail"  (how uploadFile/downloadFile settled)
    currentIndex,   \* the shared counter of the batch
    defers,         \* the pre-allocated deferreds, indexed 0..bN-1
    qall,           \* the promise of Q.all(promises)
    bOutcome,       \* the deferred returned by uploadProject / downloadProject
    bEvents,        \* the progress events accepted by deferred.notify, in order
    order,          \* history: the tasks in the order their handlers ran
    \* ---- buildProject / pollBuild ----
    ppc,            \* "idle" | "ready" | "called" (buildProject has returned its promise)
    platform,       \* whether params.platform is set
    loggedIn,       \* this._loggedIn
    outer,          \* the deferred of buildProject (line 1291)
    submit,         \* the build request: "none" | "rejected" (never sent) | "inflight" | "ok" | "failed"
    interval,       \* whether the setInterval timer of pollBuild is active
    counter,        \* pollBuild's counter
    sent,           \* status queries whose HTTP request has been sent
    answered,       \* status queries whose response was handled (or that are never answered)
    poll,           \* the deferred of pollBuild (line 1309)
    finalFetch,     \* the result fetch of line 1358: "none" | "inflight" | "done"
    failFetch,      \* result fetches of line 1331 in flight
    firstFinishK,   \* history: the first query answered finished/'finish' (0: none)
    everFinished,   \* history: some status response reported finished
    everFailStatus, \* history: some status response reported finished, status not 'finish'
    everQueryFailed,\* history: some status query failed
    finalPayload,   \* history: the payload the fetch of line 1358 returned
    failMessage,    \* history: what the first fetch of line 1331 to answer returned:
                    \*          an error_message, or "failed" when the fetch failed
    overlap,        \* history: a timer callback ran while an earlier status query
                    \*          was unanswered
    resultPosts,    \* history: requests posted to the result endpoint
    notes,          \* history: progress notifications delivered to the caller
    cParams,        \* the params object the caller passed to buildProject
    posted,         \* the params of the build requests that were issued (a set)
    \* ---- uploadProject / downloadProject up to the start of the transfers ----
    spc,            \* "idle" | "ready" | "lookup" | "fetching" | "transferring" | "failed"
    sDir,           \* "upload" | "download"
    sDisk,          \* the listing of the project directory (shell.ls -RA)
    sRemote,        \* the file tree of the remote project
    sLookup,        \* localProperties.get: "none" | "pending" | "ok" | "failed"
    sScan,          \* getLocalProjectFiles: "none" | "pending" | "ok" | "failed"
    sFetch,         \* getProjectFiles: "none" | "pending" | "ok" | "failed"
    sLocalFiles,    \* files[0]: what getLocalProjectFiles resolved with
    sRemoteFiles,   \* files[1]: what getProjectFiles resolved with
    sDiff,          \* the destination tree after _filterFiles
    sStarted,       \* the keys for which uploadFile / downloadFile was called
    sOutcome,       \* the deferred of uploadProject / downloadProject
    \* ---- cloneProject ----
    cpc,            \* "idle" | "ready" | "rejected" | "fetching" | "thrown" | "downloading"
                    \* | "saving" | "done"
    cDest0,         \* destDir before the call: "absent" | "emptydir" | "nonempty"
    cDest,          \* destDir now
    cFiles,         \* the file tree of the remote project
    cOuter,         \* the deferred of cloneProject
    cTotal,         \* totalLength
    cIndex,         \* index
    cDefers,        \* defers[0..totalLength-1]
    cQall,          \* Q.all(promises)
    cState,         \* per download: "inflight" | "handled" | "done"
    cEvents,        \* the notifications delivered to the caller
    cSave,          \* localProperties.set: "none" | "pending" | "ok" | "failed"
    cSaved,         \* the project id is recorded in destDir
    \* ---- the session of a client and one API call at a time ----
    lpc,            \* "idle" | "live"
    lLoggedIn,      \* this._loggedIn
    lTokens,        \* this.tokens: "undefined" | "set"
    lLogin,         \* a _login in progress: "none" | "inflight"
    lLogout,        \* a logout in progress: "none" | "inflight"
    lSession,       \* history: "never" | "active" | "loggedOut"
    lLoginFailed,   \* history: the last login to end failed
    lCall,          \* the API call in progress or last made
    lOps,           \* operations started so far
    \* ---- setConfig / removeConfig of concurrent callers on one config file ----
    gFile0,         \* the config file before the calls
    gFile,          \* the config file: [st |-> "absent" | "corrupt" | "json", keys |-> its keys]
    gLock,          \* the caller whose lock file exists (0: none)
    gOp,            \* per caller: [kind |-> "set" | "remove", key |-> the key]
    gpc,            \* per caller: where its call is
    gOb,            \* per caller: the keys of the object it parsed and updated
    gOut,           \* per caller: "none" | "pending" | "resolved" | "rejected"
    gExit,          \* history, per caller: the path its call ended on ("none": not ended)
    \* ---- uploadProject called again after a successful upload ----
    upc,            \* "idle" | "ready" | "transferring" | "resolved" | "rejected"
    uRound,         \* which call of uploadProject this is
    uDisk,          \* the project directory: path -> entry
    uRemote,        \* the remote project: path -> entry
    uKeys,          \* the keys uploadFile was called for in this call
    uPending        \* the keys whose uploadFile has not settled

fvars == <<fpc, dst, src, dst0>>
bvars == <<bpc, bDir, bN, tstate, tres, currentIndex, defers, qall, bOutcome, bEvents, order>>
pvars == <<ppc, platform, loggedIn, outer, submit, interval, counter, sent, answered,
           poll, finalFetch, failFetch, firstFinishK, everFinished, everFailStatus,
           everQueryFailed, finalPayload, failMessage, overlap,
           cParams, posted, resultPosts, notes>>
svars == <<spc, sDir, sDisk, sRemote, sLookup, sScan, sFetch, sLocalFiles, sRemoteFiles,
           sDiff, sStarted, sOutcome>>
cvars == <<cpc, cDest0, cDest, cFiles, cOuter, cTotal, cIndex, cDefers, cQall, cState,
           cEvents, cSave, cSaved>>
lvars == <<lpc, lLoggedIn, lTokens, lLogin, lLogout, lSession, lLoginFailed, lCall, lOps>>
gvars == <<gFile0, gFile, gLock, gOp, gpc, gOb, gOut, gExit>>
uvars == <<upc, uRound, uDisk, uRemote, uKeys, uPending>>
vars == <<fvars, bvars, pvars, svars, cvars, lvars, gvars, uvars>>

----------------------------------------------------------------------------
(* Bounds *)
MaxTasks == 3
\* Operations (logins, logouts, API calls) started on one client.
MaxOps == 4
\* Concurrent callers (in one process or several) of setConfig / removeConfig.
MaxCallers == 2
\* Status queries posted and not yet answered that the model follows; when
\* the timer posts one more, the oldest is taken as never answered.
MaxInFlight == 2
\* Result fetches of line 1331 in flight that the model follows.
MaxFetch == 1
\* Requests to the result endpoint that are counted (the count stops there).
MaxPosts == 2
\* Progress notifications of one build that are counted.
MaxNotes == 2
\* Entries of the local and the remote tree of one synchronisation.
MaxFiles == 2

(* Program constants *)
\* if (counter++ == 80)
MaxAttempts == 80

----------------------------------------------------------------------------
(* File trees: a JS object mapping path -> {type, hash}.  A 'dir' entry   *)
(* has no hash property (reads as undefined).                              *)
Paths == {"/www", "/www/a.js", "/config.xml"}
Hashes == {"111", "222"}
Entries == {[type |-> "dir", hash |-> "undefined"]}
             \cup {[type |-> "file", hash |-> h] : h \in Hashes}
Trees == UNION {[S -> Entries] : S \in SUBSET Paths}

\* delete obj[key]
Delete(obj, key) == [k \in (DOMAIN obj) \ {key} |-> obj[k]]

\* A plausible slip: directories are not removed, only unchanged files.
FilterEntryKeepDirs(d, s, key) ==
    IF key \in DOMAIN d /\ key \in DOMAIN s /\ d[key].hash = s[key].hash
        THEN Delete(d, key)
        ELSE d

\* A plausible slip: a directory is removed only when src has the path too.
FilterEntryKeepNewDirs(d, s, key) ==
    IF key \in DOMAIN d /\ key \in DOMAIN s
        THEN IF d[key].type = "dir" \/ d[key].hash = s[key].hash THEN Delete(d, key) ELSE d
        ELSE d

\* A plausible slip: only directories are removed, unchanged files stay.
FilterEntryDirsOnly(d, s, key) ==
    IF d[key].type = "dir" THEN Delete(d, key) ELSE d

\* A plausible slip: a changed file takes the entry of the source.
FilterEntryTakeSource(d, s, key) ==
    IF d[key].type = "dir"
        THEN Delete(d, key)
        ELSE IF key \in DOMAIN d /\ key \in DOMAIN s
                THEN IF d[key].hash = s[key].hash THEN Delete(d, key)
                                                  ELSE [d EXCEPT ![key] = s[key]]
                ELSE d

\* The body of the for-in loop of _filterFiles for one key.
FilterEntry(d, s, key) ==
    IF d[key].type = "dir"
        THEN Delete(d, key)
        ELSE IF key \in DOMAIN d /\ key \in DOMAIN s
                THEN IF d[key].hash = s[key].hash THEN Delete(d, key) ELSE d
                ELSE d

\* for (var key in dst): every own key of dst is visited once; a visit
\* deletes at most the key being visited.
RECURSIVE FilterLoop(_, _, _)
FilterLoop(d, s, keys) ==
    IF keys = {}
        THEN d
        ELSE LET key == CHOOSE k \in keys : TRUE
             IN  FilterLoop(FilterEntry(d, s, key), s, keys \ {key})

filterFiles(d, s) == FilterLoop(d, s, DOMAIN d)

FilterIdle == fpc = "idle" /\ dst = << >> /\ src = << >> /\ dst0 = << >>

InitTrees ==
    /\ fpc = "ready"
    /\ dst \in Trees
    /\ src \in Trees
    /\ dst0 = dst

\* this._filterFiles(dst, src)
FilterFilesCall ==
    /\ fpc = "ready"
    /\ dst' = filterFiles(dst, src)
    /\ fpc' = "done"
    /\ UNCHANGED <<src, dst0>>
    /\ UNCHANGED <<bvars, pvars, svars, cvars, lvars, gvars, uvars>>

----------------------------------------------------------------------------
(* The transfer batch.  Task t (1..bN) is the transfer of the t-th key.   *)
(* The error a failing task rejects with is identified by the task: t.    *)
Tasks == 1..bN
Pending == [st |-> "pending", err |-> 0, val |-> "none"]
Resolved(v) == [st |-> "resolved", err |-> 0, val |-> v]
Rejected(e) == [st |-> "rejected", err |-> e, val |-> "none"]

\* What the task's promise resolves with, and the handler passes on as
\* `path`: uploadFile resolves with remotePath, downloadFile with localPath.
ResolvedPath(t) == [of |-> t, kind |-> IF bDir = "upload" THEN "remote" ELSE "local"]

\* d.resolve() / d.reject(e) on a Q deferred: a settled deferred ignores it.
Settle(d, to) == IF d.st = "pending" THEN to ELSE d

\* A plausible slip: a settled deferred still passes notifications on.
AcceptsAlways(d) == TRUE

\* deferred.notify(progress) on a Q deferred (lines 1111, 1322, 1370): a
\* settled deferred ignores it.
Accepts(d) == d.st = "pending"

\* A plausible slip: the batch resolves as soon as one slot is resolved.
AnyResolved(ds) == \E i \in DOMAIN ds : ds[i].st = "resolved"

AllResolved(ds) == \A i \in DOMAIN ds : ds[i].st = "resolved"

\* A plausible slip: a later rejection replaces the outcome already decided.
QAllLastWins(q, ds, i) ==
    IF ds[i].st = "rejected" THEN Rejected(ds[i].err)
    ELSE IF q.st # "pending" THEN q
    ELSE IF AllResolved(ds) THEN Resolved("none")
    ELSE q

\* Q.all(promises) after the slots became ds, one of them (slot i) just
\* settled: it rejects with the first rejection delivered, and resolves
\* when every promise is resolved.
QAll(q, ds, i) ==
    IF q.st # "pending" THEN q
    ELSE IF ds[i].st = "rejected" THEN Rejected(ds[i].err)
    ELSE IF AllResolved(ds) THEN Resolved("none")
    ELSE q

BatchIdle ==
    /\ bpc = "idle" /\ bDir = "none" /\ bN = 0
    /\ tstate = << >> /\ tres = << >>
    /\ currentIndex = 0 /\ defers = << >>
    /\ qall = Pending /\ bOutcome = Pending
    /\ bEvents = << >> /\ order = << >>

\* The state at lines 1092 / 1193: the trees are diffed and the keys of
\* the transfer set are known.
InitKeys ==
    /\ bpc = "ready"
    /\ bDir \in {"upload", "download"}
    /\ bN \in 0..MaxTasks
    /\ tstate = [t \in 1..bN |-> "none"]
    /\ tres = [t \in 1..bN |-> "none"]
    /\ currentIndex = 0
    /\ defers = << >>
    /\ qall = Pending /\ bOutcome = Pending
    /\ bEvents = << >> /\ order = << >>

\* A plausible slip: the promise of an empty list stays pending.
QAllOfPending(n) == Pending

\* Q.all(promises) when it is called (lines 1130 / 1229): the promise of
\* an empty list is resolved at once.
QAllOf(n) == IF n = 0 THEN Resolved("none") ELSE Pending

\* A plausible slip: the transfers are started one after the other, the
\* next one when the one before has completed.
StartStateSerial(t) == IF t = 1 THEN "inflight" ELSE "none"

\* keys.forEach (lines 1105-1109 / 1204-1208): uploadFile / downloadFile is
\* called for every key within the loop; no call waits for another.
StartState(t) == "inflight"

\* Lines 1094-1137 / 1193-1236 up to the return to the event loop: the
\* slots are allocated, every transfer is started, Q.all is attached.
\* Q.all([]) is resolved at once.
StartBatch ==
    /\ bpc = "ready"
    /\ bpc' = "running"
    /\ currentIndex' = 0
    /\ defers' = [i \in 0..(bN - 1) |-> Pending]
    /\ tstate' = [t \in Tasks |-> StartState(t)]
    /\ qall' = QAllOf(bN)
    /\ UNCHANGED <<bDir, bN, tres, bOutcome, bEvents, order>>
    /\ UNCHANGED <<fvars, pvars, svars, cvars, lvars, gvars, uvars>>

\* A plausible slip: the total is the number of transfers still to complete.
ProgressEventRemaining(t) ==
    [path |-> ResolvedPath(t), total |-> bN - currentIndex, index |-> currentIndex]

\* The object passed to deferred.notify (lines 1111-1115 / 1210-1214).
ProgressEvent(t) ==
    [path |-> ResolvedPath(t), total |-> bN, index |-> currentIndex]

\* The success handler of one transfer (lines 1110-1117 / 1209-1216).
TaskSucceeded(t) ==
    /\ bpc = "running" /\ tstate[t] = "inflight"
    /\ LET ds == [defers EXCEPT ![currentIndex] = Settle(@, Resolved("none"))]
       IN  /\ bEvents' = IF Accepts(bOutcome)
                            THEN Append(bEvents, ProgressEvent(t))
                            ELSE bEvents
           /\ defers' = ds
           /\ qall' = QAll(qall, ds, currentIndex)
    /\ tstate' = [tstate EXCEPT ![t] = "handled"]
    /\ tres' = [tres EXCEPT ![t] = "ok"]
    /\ order' = Append(order, t)
    /\ UNCHANGED <<bpc, bDir, bN, currentIndex, bOutcome>>
    /\ UNCHANGED <<fvars, pvars, svars, cvars, lvars, gvars, uvars>>

\* The failure handler of one transfer (lines 1118-1120 / 1217-1219).
TaskFailed(t) ==
    /\ bpc = "running" /\ tstate[t] = "inflight"
    /\ LET ds == [defers EXCEPT ![currentIndex] = Settle(@, Rejected(t))]
       IN  /\ defers' = ds
           /\ qall' = QAll(qall, ds, currentIndex)
    /\ tstate' = [tstate EXCEPT ![t] = "handled"]
    /\ tres' = [tres EXCEPT ![t] = "fail"]
    /\ order' = Append(order, t)
    /\ UNCHANGED <<bpc, bDir, bN, currentIndex, bOutcome, bEvents>>
    /\ UNCHANGED <<fvars, pvars, svars, cvars, lvars, gvars, uvars>>

\* The .finally callback of one transfer (lines 1122-1126 / 1221-1225).
\* It is a later job of the promise queue than the handler: the handler of
\* another transfer that settled in the same turn runs in between.
TaskFinally(t) ==
    /\ bpc = "running" /\ tstate[t] = "handled"
    /\ currentIndex' = currentIndex + 1
    /\ tstate' = [tstate EXCEPT ![t] = "done"]
    /\ UNCHANGED <<bpc, bDir, bN, tres, defers, qall, bOutcome, bEvents, order>>
    /\ UNCHANGED <<fvars, pvars, svars, cvars, lvars, gvars, uvars>>

\* The handlers attached to Q.all(promises) (lines 1130-1137 / 1229-1236).
BatchSettle ==
    /\ bpc = "running" /\ qall.st # "pending" /\ bOutcome.st = "pending"
    /\ bOutcome' = IF qall.st = "resolved" THEN Resolved("projectId")
                                           ELSE Rejected(qall.err)
    /\ UNCHANGED <<bpc, bDir, bN, tstate, tres, currentIndex, defers, qall, bEvents, order>>
    /\ UNCHANGED <<fvars, pvars, svars, cvars, lvars, gvars, uvars>>

----------------------------------------------------------------------------
(* buildProject.  The values promises settle with are strings.            *)
PPending == [st |-> "pending", val |-> "none"]
PNone == [st |-> "none", val |-> "none"]
PResolved(v) == [st |-> "resolved", val |-> v]
PRejected(e) == [st |-> "rejected", val |-> e]

\* What the remote service can answer.
TransportErrors == {"ECONNRESET"}
Payloads == {"app.apk", "app.ipa"}
ErrorMessages == {"compile error"}

\* The values a caller passes for params.framework_version and
\* params.purpose: left out, the empty string, or a value of its own.
VersionValues == {"undefined", "", "3.4"}
PurposeValues == {"undefined", "", "release"}

\* !v for the values above.
Falsy(v) == v \in {"undefined", ""}

\* A plausible slip: the default is assigned whatever the caller passed.
DefaultedAlways(v, def) == def

\* if (!params.x) { params.x = def; } (lines 1296-1302)
Defaulted(v, def) == IF Falsy(v) THEN def ELSE v

BuildIdle ==
    /\ ppc = "idle" /\ platform = FALSE /\ loggedIn = FALSE
    /\ outer = PNone /\ submit = "none" /\ interval = FALSE
    /\ counter = 0 /\ sent = 0 /\ answered = 0
    /\ poll = PNone /\ finalFetch = "none" /\ failFetch = 0
    /\ firstFinishK = 0 /\ everFinished = FALSE /\ everFailStatus = FALSE
    /\ everQueryFailed = FALSE /\ finalPayload = "none" /\ failMessage = "none"
    /\ overlap = FALSE
    /\ cParams = [framework_version |-> "undefined", purpose |-> "undefined"]
    /\ posted = {}
    /\ resultPosts = 0 /\ notes = 0

\* A client about to call buildProject(projectId, params).
InitBuild ==
    /\ ppc = "ready"
    /\ platform \in BOOLEAN
    /\ loggedIn \in BOOLEAN
    /\ outer = PNone /\ submit = "none" /\ interval = FALSE
    /\ counter = 0 /\ sent = 0 /\ answered = 0
    /\ poll = PNone /\ finalFetch = "none" /\ failFetch = 0
    /\ firstFinishK = 0 /\ everFinished = FALSE /\ everFailStatus = FALSE
    /\ everQueryFailed = FALSE /\ finalPayload = "none" /\ failMessage = "none"
    /\ overlap = FALSE
    /\ cParams \in [framework_version : VersionValues, purpose : PurposeValues]
    /\ posted = {}
    /\ resultPosts = 0 /\ notes = 0

phist == <<firstFinishK, everFinished, everFailStatus, everQueryFailed, finalPayload, failMessage>>
phistAll == <<phist, overlap>>

\* The synchronous part of buildProject (lines 1290-1380): the platform
\* check rejects the deferred and execution goes on to the _post of line
\* 1352.  _post rejects without a request when not logged in (line 257).
BuildProjectCall ==
    /\ ppc = "ready"
    /\ ppc' = "called"
    /\ LET d == IF ~platform THEN PRejected("Must specify build platform.") ELSE PPending
       IN  IF loggedIn
              THEN /\ submit' = "inflight"
                   /\ outer' = d
                   /\ posted' = {[framework_version |->
                                      Defaulted(cParams.framework_version, "3.5"),
                                   purpose |-> Defaulted(cParams.purpose, "debug"),
                                   platform |-> platform]}
              ELSE /\ submit' = "rejected"
                   /\ outer' = Settle(d, PRejected("Must be logged in to use this method."))
                   /\ posted' = posted
    /\ UNCHANGED <<platform, loggedIn, interval, counter, sent, answered, poll,
                   finalFetch, failFetch, phistAll, cParams, resultPosts, notes>>
    /\ UNCHANGED <<fvars, bvars, svars, cvars, lvars, gvars, uvars>>

\* The build request succeeded (lines 1353-1356): pollBuild(queueId) makes
\* its deferred and starts the timer.
SubmitOk ==
    /\ submit = "inflight"
    /\ submit' = "ok"
    /\ poll' = PPending
    /\ counter' = 0
    /\ interval' = TRUE
    /\ UNCHANGED <<ppc, platform, loggedIn, outer, sent, answered, finalFetch, failFetch, phistAll>>
    /\ UNCHANGED <<cParams, posted, resultPosts, notes>>
    /\ UNCHANGED <<fvars, bvars, svars, cvars, lvars, gvars, uvars>>

\* The build request failed (lines 1375-1377).
SubmitFailed ==
    /\ submit = "inflight"
    /\ submit' = "failed"
    /\ \E e \in TransportErrors : outer' = Settle(outer, PRejected(e))
    /\ UNCHANGED <<ppc, platform, loggedIn, interval, counter, sent, answered, poll,
                   finalFetch, failFetch, phistAll>>
    /\ UNCHANGED <<cParams, posted, resultPosts, notes>>
    /\ UNCHANGED <<fvars, bvars, svars, cvars, lvars, gvars, uvars>>

\* pollBuild's deferred settles as `to` (ignored when already settled); the
\* handlers of lines 1357-1369 then run once: a resolution starts the
\* result fetch of line 1358, a rejection rejects buildProject's deferred.
OuterAfterPoll(to) ==
    IF poll.st = "pending" /\ to.st = "rejected" THEN Settle(outer, to) ELSE outer

FinalFetchAfterPoll(to) ==
    IF poll.st = "pending" /\ to.st = "resolved" THEN "inflight" ELSE finalFetch

\* A count that stops at max.
Counted(n, max) == IF n < max THEN n + 1 ELSE n

\* deferred.notify(result.description) of pollBuild (line 1322): the
\* progress handler of line 1369 passes what pollBuild's deferred accepts
\* on to buildProject's deferred, and what that accepts reaches the caller.
Delivered(n) ==
    IF Accepts(poll) /\ Accepts(outer) THEN Counted(n, MaxNotes) ELSE n

\* if (counter++ == 80)
TimedOut(c) == c = MaxAttempts

\* One run of the timer callback (lines 1312-1318): the timeout branch
\* does not return, so the status query of line 1318 is posted in every
\* run.  _post sends its request later, when the proxy setting is read.
Tick ==
    /\ interval
    /\ counter' = counter + 1
    /\ LET to == PRejected("Build timed out")
       IN  IF TimedOut(counter)
              THEN /\ interval' = FALSE
                   /\ poll' = Settle(poll, to)
                   /\ outer' = OuterAfterPoll(to)
              ELSE UNCHANGED <<interval, poll, outer>>
    /\ IF (counter + 1) - answered > MaxInFlight
          THEN /\ answered' = answered + 1
               /\ sent' = IF sent > answered THEN sent ELSE answered + 1
          ELSE UNCHANGED <<answered, sent>>
    /\ overlap' = (overlap \/ answered < counter)
    /\ UNCHANGED <<ppc, platform, loggedIn, submit, finalFetch, failFetch, phist>>
    /\ UNCHANGED <<cParams, posted, resultPosts, notes>>
    /\ UNCHANGED <<fvars, bvars, svars, cvars, lvars, gvars, uvars>>

\* _post (lines 261-287): the request of a posted status query goes out.
SendStatus ==
    /\ sent < counter
    /\ sent' = sent + 1
    /\ UNCHANGED <<ppc, platform, loggedIn, outer, submit, interval, counter, answered,
                   poll, finalFetch, failFetch, phistAll>>
    /\ UNCHANGED <<cParams, posted, resultPosts, notes>>
    /\ UNCHANGED <<fvars, bvars, svars, cvars, lvars, gvars, uvars>>

\* A status response with finished = false (lines 1319-1324): only a
\* progress notification.
StatusRunning ==
    /\ answered < sent
    /\ answered' = answered + 1
    /\ UNCHANGED <<ppc, platform, loggedIn, outer, submit, interval, counter, sent,
                   poll, finalFetch, failFetch, phistAll>>
    /\ notes' = Delivered(notes)
    /\ UNCHANGED <<cParams, posted, resultPosts>>
    /\ UNCHANGED <<fvars, bvars, svars, cvars, lvars, gvars, uvars>>

\* A status response with finished = true, status 'finish' (lines 1324-1329).
StatusFinish ==
    /\ answered < sent
    /\ answered' = answered + 1
    /\ interval' = FALSE
    /\ LET to == PResolved("description")
       IN  /\ poll' = Settle(poll, to)
           /\ outer' = OuterAfterPoll(to)
           /\ finalFetch' = FinalFetchAfterPoll(to)
    /\ firstFinishK' = IF firstFinishK = 0 THEN answered + 1 ELSE firstFinishK
    /\ everFinished' = TRUE
    /\ UNCHANGED <<ppc, platform, loggedIn, submit, counter, sent, failFetch,
                   everFailStatus, everQueryFailed, finalPayload, failMessage, overlap>>
    /\ notes' = Delivered(notes)
    /\ resultPosts' = IF poll.st = "pending" THEN Counted(resultPosts, MaxPosts)
                                             ELSE resultPosts
    /\ UNCHANGED <<cParams, posted>>
    /\ UNCHANGED <<fvars, bvars, svars, cvars, lvars, gvars, uvars>>

\* A status response with finished = true and another status (lines
\* 1324-1339): the timer is cleared and the result is fetched for the
\* error message.
StatusFail ==
    /\ answered < sent
    /\ answered' = answered + 1
    /\ interval' = FALSE
    /\ failFetch' = IF failFetch < MaxFetch THEN failFetch + 1 ELSE failFetch
    /\ everFinished' = TRUE
    /\ everFailStatus' = TRUE
    /\ UNCHANGED <<ppc, platform, loggedIn, outer, submit, counter, sent, poll, finalFetch,
                   firstFinishK, everQueryFailed, finalPayload, failMessage, overlap>>
    /\ notes' = Delivered(notes)
    /\ resultPosts' = Counted(resultPosts, MaxPosts)
    /\ UNCHANGED <<cParams, posted>>
    /\ UNCHANGED <<fvars, bvars, svars, cvars, lvars, gvars, uvars>>

\* A status query failed (lines 1342-1345).
StatusError ==
    /\ answered < sent
    /\ answered' = answered + 1
    /\ interval' = FALSE
    /\ \E e \in TransportErrors :
          /\ poll' = Settle(poll, PRejected(e))
          /\ outer' = OuterAfterPoll(PRejected(e))
    /\ everQueryFailed' = TRUE
    /\ UNCHANGED <<ppc, platform, loggedIn, submit, counter, sent, finalFetch, failFetch,
                   firstFinishK, everFinished, everFailStatus, finalPayload, failMessage, overlap>>
    /\ UNCHANGED <<cParams, posted, resultPosts, notes>>
    /\ UNCHANGED <<fvars, bvars, svars, cvars, lvars, gvars, uvars>>

\* The result fetch of line 1331 answers (lines 1332-1337).
FailFetchOk ==
    /\ failFetch > 0
    /\ failFetch' = failFetch - 1
    /\ \E m \in ErrorMessages :
          /\ poll' = Settle(poll, PRejected(m))
          /\ outer' = OuterAfterPoll(PRejected(m))
          /\ failMessage' = IF failMessage = "none" THEN m ELSE failMessage
    /\ UNCHANGED <<ppc, platform, loggedIn, submit, interval, counter, sent, answered,
                   finalFetch, firstFinishK, everFinished, everFailStatus,
                   everQueryFailed, finalPayload, overlap>>
    /\ UNCHANGED <<cParams, posted, resultPosts, notes>>
    /\ UNCHANGED <<fvars, bvars, svars, cvars, lvars, gvars, uvars>>

FailFetchFailed ==
    /\ failFetch > 0
    /\ failFetch' = failFetch - 1
    /\ \E e \in TransportErrors :
          /\ poll' = Settle(poll, PRejected(e))
          /\ outer' = OuterAfterPoll(PRejected(e))
    /\ failMessage' = IF failMessage = "none" THEN "failed" ELSE failMessage
    /\ UNCHANGED <<ppc, platform, loggedIn, submit, interval, counter, sent, answered,
                   finalFetch, firstFinishK, everFinished, everFailStatus,
                   everQueryFailed, finalPayload, overlap>>
    /\ UNCHANGED <<cParams, posted, resultPosts, notes>>
    /\ UNCHANGED <<fvars, bvars, svars, cvars, lvars, gvars, uvars>>

\* The result fetch of line 1358 answers (lines 1359-1364).
FinalFetchOk ==
    /\ finalFetch = "inflight"
    /\ finalFetch' = "done"
    /\ \E r \in Payloads :
          /\ outer' = Settle(outer, PResolved(r))
          /\ finalPayload' = r
    /\ UNCHANGED <<ppc, platform, loggedIn, submit, interval, counter, sent, answered,
                   poll, failFetch, firstFinishK, everFinished, everFailStatus,
                   everQueryFailed, failMessage, overlap>>
    /\ UNCHANGED <<cParams, posted, resultPosts, notes>>
    /\ UNCHANGED <<fvars, bvars, svars, cvars, lvars, gvars, uvars>>

FinalFetchFailed ==
    /\ finalFetch = "inflight"
    /\ finalFetch' = "done"
    /\ \E e \in TransportErrors : outer' = Settle(outer, PRejected(e))
    /\ UNCHANGED <<ppc, platform, loggedIn, submit, interval, counter, sent, answered,
                   poll, failFetch, phistAll>>
    /\ UNCHANGED <<cParams, posted, resultPosts, notes>>
    /\ UNCHANGED <<fvars, bvars, svars, cvars, lvars, gvars, uvars>>

----------------------------------------------------------------------------
(* uploadProject / downloadProject from the call to the start of the      *)
(* transfers.  Here a path is the sequence of its characters, so that the *)
(* string tests of the code are computed on it.                           *)
WwwA == <<"/", "w", "w", "w", "/", "a">>
MergesA == <<"/", "m", "e", "r", "g", "e", "s", "/", "a">>
PluginsA == <<"/", "p", "l", "u", "g", "i", "n", "s", "/", "a">>
WwwxA == <<"/", "w", "w", "w", "x", "/", "a">>
NodeModulesA == <<"/", "n", "o", "d", "e", "_", "m", "o", "d", "u", "l", "e", "s", "/", "a">>
\* '/node_modules.txt': a top-level file, not inside node_modules
NodeModulesTxt ==
    <<"/", "n", "o", "d", "e", "_", "m", "o", "d", "u", "l", "e", "s", ".", "t", "x", "t">>
\* '/www/node_modules/a': inside a node_modules directory below the root
WwwNodeModulesA ==
    <<"/", "w", "w", "w", "/", "n", "o", "d", "e", "_", "m", "o", "d", "u", "l", "e", "s",
      "/", "a">>
TopA == <<"/", "a", ".", "b">>
Www == <<"/", "w", "w", "w">>
WwwHidden == <<"/", "w", "w", "w", "/", ".", "h">>
TopHidden == <<"/", ".", "h">>
\* '/.monaca/local_properties.json'
LocalProperties ==
    <<"/", ".", "m", "o", "n", "a", "c", "a", "/",
      "l", "o", "c", "a", "l", "_", "p", "r", "o", "p", "e", "r", "t", "i", "e", "s",
      ".", "j", "s", "o", "n">>

SyncPaths == {WwwA, MergesA, PluginsA, WwwxA, NodeModulesA, NodeModulesTxt, WwwNodeModulesA, TopA, Www, WwwHidden, TopHidden,
              LocalProperties}

\* fn.indexOf(sub) >= 0
Contains(fn, sub) ==
    \E i \in 1..(Len(fn) - Len(sub) + 1) : SubSeq(fn, i, i + Len(sub) - 1) = sub

StartsWith(fn, pre) == Len(fn) >= Len(pre) /\ SubSeq(fn, 1, Len(pre)) = pre

\* /^\/(www\/|merges\/|plugins\/|[^/]*$)/.test(fn)
ScopeRegex(fn) ==
    /\ StartsWith(fn, <<"/">>)
    /\ \/ StartsWith(Tail(fn), <<"w", "w", "w", "/">>)
       \/ StartsWith(Tail(fn), <<"m", "e", "r", "g", "e", "s", "/">>)
       \/ StartsWith(Tail(fn), <<"p", "l", "u", "g", "i", "n", "s", "/">>)
       \/ \A i \in 2..Len(fn) : fn[i] # "/"

\* A plausible slip: hidden files and folders are not excluded.
fileFilterNoHidden(fn) == ScopeRegex(fn)

\* var fileFilter = function(fn) (lines 1082-1090)
fileFilter(fn) ==
    IF Contains(fn, <<"/", ".">>) THEN FALSE ELSE ScopeRegex(fn)

\* name.indexOf('node_modules') !== 0 (lines 751-753), for the key '/' + name.
ListedByScan(key) ==
    ~StartsWith(Tail(key), <<"n", "o", "d", "e", "_", "m", "o", "d", "u", "l", "e", "s">>)

\* The tree getLocalProjectFiles resolves with for the listing disk.
ScannedTree(disk) ==
    Delete([k \in {x \in DOMAIN disk : ListedByScan(x)} |-> disk[k]], LocalProperties)

\* A plausible slip: the transfers start when one of the two trees is there.
EitherTreeResolved == sScan = "ok" \/ sFetch = "ok"

\* Q.all([getLocalProjectFiles, getProjectFiles]) is resolved.
BothTreesResolved == sScan = "ok" /\ sFetch = "ok"

SyncTrees(S) == UNION {[T -> Entries] : T \in SUBSET S}

SyncIdle ==
    /\ spc = "idle" /\ sDir = "none" /\ sDisk = << >> /\ sRemote = << >>
    /\ sLookup = "none" /\ sScan = "none" /\ sFetch = "none"
    /\ sLocalFiles = << >> /\ sRemoteFiles = << >> /\ sDiff = << >>
    /\ sStarted = {} /\ sOutcome = PNone

\* A project directory and a remote project, about to be synchronised.
InitSync ==
    /\ spc = "ready"
    /\ sDir \in {"upload", "download"}
    /\ \E S \in {T \in SUBSET SyncPaths : Cardinality(T) <= MaxFiles} :
          /\ sDisk \in SyncTrees(S)
          /\ sRemote \in SyncTrees(S)
    /\ sLookup = "none" /\ sScan = "none" /\ sFetch = "none"
    /\ sLocalFiles = << >> /\ sRemoteFiles = << >> /\ sDiff = << >>
    /\ sStarted = {} /\ sOutcome = PNone

\* uploadProject(projectDir) / downloadProject(projectDir) (lines 1069-1072).
SyncCall ==
    /\ spc = "ready"
    /\ spc' = "lookup"
    /\ sLookup' = "pending"
    /\ sOutcome' = PPending
    /\ UNCHANGED <<sDir, sDisk, sRemote, sScan, sFetch, sLocalFiles, sRemoteFiles,
                   sDiff, sStarted>>
    /\ UNCHANGED <<fvars, bvars, pvars, cvars, lvars, gvars, uvars>>

\* The project id is found (lines 1073-1074): both trees are asked for.
LookupOk ==
    /\ sLookup = "pending"
    /\ sLookup' = "ok"
    /\ spc' = "fetching"
    /\ sScan' = "pending"
    /\ sFetch' = "pending"
    /\ UNCHANGED <<sDir, sDisk, sRemote, sLocalFiles, sRemoteFiles, sDiff, sStarted,
                   sOutcome>>
    /\ UNCHANGED <<fvars, bvars, pvars, cvars, lvars, gvars, uvars>>

\* The project id lookup fails (lines 1145-1147).
LookupFailed ==
    /\ sLookup = "pending"
    /\ sLookup' = "failed"
    /\ spc' = "failed"
    /\ sOutcome' = Settle(sOutcome, PRejected("lookup error"))
    /\ UNCHANGED <<sDir, sDisk, sRemote, sScan, sFetch, sLocalFiles, sRemoteFiles,
                   sDiff, sStarted>>
    /\ UNCHANGED <<fvars, bvars, pvars, cvars, lvars, gvars, uvars>>

\* getLocalProjectFiles resolves (lines 746-798): the listing without
\* node_modules and without the local properties file.
ScanOk ==
    /\ sScan = "pending"
    /\ sScan' = "ok"
    /\ sLocalFiles' = ScannedTree(sDisk)
    /\ UNCHANGED <<spc, sDir, sDisk, sRemote, sLookup, sFetch, sRemoteFiles, sDiff,
                   sStarted, sOutcome>>
    /\ UNCHANGED <<fvars, bvars, pvars, cvars, lvars, gvars, uvars>>

\* getLocalProjectFiles rejects (lines 800-807: a file cannot be read, or
\* the directory does not exist); Q.all rejects (lines 1139-1141).
ScanFailed ==
    /\ sScan = "pending"
    /\ sScan' = "failed"
    /\ spc' = "failed"
    /\ sOutcome' = Settle(sOutcome, PRejected("scan error"))
    /\ UNCHANGED <<sDir, sDisk, sRemote, sLookup, sFetch, sLocalFiles, sRemoteFiles,
                   sDiff, sStarted>>
    /\ UNCHANGED <<fvars, bvars, pvars, cvars, lvars, gvars, uvars>>

\* getProjectFiles resolves (lines 700-703).
FetchOk ==
    /\ sFetch = "pending"
    /\ sFetch' = "ok"
    /\ sRemoteFiles' = sRemote
    /\ UNCHANGED <<spc, sDir, sDisk, sRemote, sLookup, sScan, sLocalFiles, sDiff,
                   sStarted, sOutcome>>
    /\ UNCHANGED <<fvars, bvars, pvars, cvars, lvars, gvars, uvars>>

\* getProjectFiles rejects (lines 704-706); Q.all rejects (lines 1139-1141).
FetchFailed ==
    /\ sFetch = "pending"
    /\ sFetch' = "failed"
    /\ spc' = "failed"
    /\ sOutcome' = Settle(sOutcome, PRejected("fetch error"))
    /\ UNCHANGED <<sDir, sDisk, sRemote, sLookup, sScan, sLocalFiles, sRemoteFiles,
                   sDiff, sStarted>>
    /\ UNCHANGED <<fvars, bvars, pvars, cvars, lvars, gvars, uvars>>

\* The keys of the transfer set: Object.keys(localFiles).filter(fileFilter)
\* (line 1092) for an upload, Object.keys(remoteFiles) (line 1204) for a
\* download.
TransferKeys(dir, diff) ==
    IF dir = "upload" THEN {k \in DOMAIN diff : fileFilter(k)} ELSE DOMAIN diff

\* The handler of Q.all (lines 1075-1128 / 1186-1227): the destination
\* tree is filtered and a transfer is started for every key.
StartTransfers ==
    /\ spc = "fetching"
    /\ BothTreesResolved
    /\ spc' = "transferring"
    /\ LET diff == IF sDir = "upload" THEN filterFiles(sLocalFiles, sRemoteFiles)
                                      ELSE filterFiles(sRemoteFiles, sLocalFiles)
       IN  /\ sDiff' = diff
           /\ sStarted' = TransferKeys(sDir, diff)
    /\ UNCHANGED <<sDir, sDisk, sRemote, sLookup, sScan, sFetch, sLocalFiles,
                   sRemoteFiles, sOutcome>>
    /\ UNCHANGED <<fvars, bvars, pvars, cvars, lvars, gvars, uvars>>

----------------------------------------------------------------------------
(* cloneProject.  Download t (1..totalLength) is that of the t-th file     *)
(* key of the remote tree; the error it fails with is identified by t.     *)

\* Object.keys(files).map(...).reduce(...) (lines 862-872): the number of
\* entries of type 'file'.  reduce without an initial value throws a
\* TypeError on an empty array.
FileCount(files) == Cardinality({k \in DOMAIN files : files[k].type = "file"})
ReduceThrows(files) == DOMAIN files = {}

\* A plausible slip: any existing destDir is refused.
DestRefusedIfExists(dest) == dest # "absent"

\* exists && shell.ls(destDir).length > 0 (line 841): an existing file is
\* listed as itself, an empty directory lists nothing.
DestRefused(dest) == dest = "nonempty"

CloneIdle ==
    /\ cpc = "idle" /\ cDest0 = "none" /\ cDest = "none" /\ cFiles = << >>
    /\ cOuter = PNone /\ cTotal = 0 /\ cIndex = 0 /\ cDefers = << >>
    /\ cQall = Pending /\ cState = << >> /\ cEvents = << >>
    /\ cSave = "none" /\ cSaved = FALSE

\* A client about to call cloneProject(projectId, destDir).
InitClone ==
    /\ cpc = "ready"
    /\ cDest0 \in {"absent", "emptydir", "nonempty"}
    /\ cDest = cDest0
    /\ cFiles \in Trees
    /\ cOuter = PNone /\ cTotal = 0 /\ cIndex = 0 /\ cDefers = << >>
    /\ cQall = Pending /\ cState = << >> /\ cEvents = << >>
    /\ cSave = "none" /\ cSaved = FALSE

\* cloneProject up to the callback of fs.exists (lines 838-857): destDir is
\* refused, or it is made and the remote tree is asked for.  shell.mkdir on
\* a directory that exists reports its error without throwing, or throws,
\* depending on the shelljs in use.
CloneCall ==
    /\ cpc = "ready"
    /\ IF DestRefused(cDest)
          THEN /\ cpc' = "rejected"
               /\ cOuter' = PRejected("File or directory already exists and it contains files.")
               /\ cDest' = cDest
          ELSE \/ /\ cpc' = "fetching"
                  /\ cOuter' = PPending
                  /\ cDest' = "emptydir"
               \/ /\ cDest = "emptydir"
                  /\ cpc' = "rejected"
                  /\ cOuter' = PRejected("path already exists")
                  /\ cDest' = cDest
    /\ UNCHANGED <<cDest0, cFiles, cTotal, cIndex, cDefers, cQall, cState, cEvents,
                   cSave, cSaved>>
    /\ UNCHANGED <<fvars, bvars, pvars, svars, lvars, gvars, uvars>>

\* getProjectFiles rejects (lines 921-923).
CloneFetchFailed ==
    /\ cpc = "fetching"
    /\ cpc' = "rejected"
    /\ \E e \in TransportErrors : cOuter' = Settle(cOuter, PRejected(e))
    /\ UNCHANGED <<cDest0, cDest, cFiles, cTotal, cIndex, cDefers, cQall, cState, cEvents,
                   cSave, cSaved>>
    /\ UNCHANGED <<fvars, bvars, pvars, svars, lvars, gvars, uvars>>

\* getProjectFiles resolves (lines 858-910): the files are counted, the
\* slots allocated, every download started and Q.all attached.  When the
\* count throws, the handler ends there and nothing settles the deferred.
CloneFetchOk ==
    /\ cpc = "fetching"
    /\ IF ReduceThrows(cFiles)
          THEN /\ cpc' = "thrown"
               /\ UNCHANGED <<cTotal, cDefers, cQall, cState>>
          ELSE /\ cpc' = "downloading"
               /\ cTotal' = FileCount(cFiles)
               /\ cDefers' = [i \in 0..(FileCount(cFiles) - 1) |-> Pending]
               /\ cState' = [t \in 1..FileCount(cFiles) |-> "inflight"]
               /\ cQall' = QAllOf(FileCount(cFiles))
    /\ UNCHANGED <<cDest0, cDest, cFiles, cOuter, cIndex, cEvents, cSave, cSaved>>
    /\ UNCHANGED <<fvars, bvars, pvars, svars, lvars, gvars, uvars>>

\* The success handler of one download (lines 883-890).
CloneDownloadOk(t) ==
    /\ cpc = "downloading" /\ cState[t] = "inflight"
    /\ LET ds == [cDefers EXCEPT ![cIndex] = Settle(@, Resolved("dest"))]
       IN  /\ cEvents' = IF cOuter.st = "pending"
                            THEN Append(cEvents, [of |-> t, total |-> cTotal, index |-> cIndex])
                            ELSE cEvents
           /\ cDefers' = ds
           /\ cQall' = QAll(cQall, ds, cIndex)
    /\ cState' = [cState EXCEPT ![t] = "handled"]
    /\ UNCHANGED <<cpc, cDest0, cDest, cFiles, cOuter, cTotal, cIndex, cSave, cSaved>>
    /\ UNCHANGED <<fvars, bvars, pvars, svars, lvars, gvars, uvars>>

\* The failure handler of one download (lines 891-893).
CloneDownloadFailed(t) ==
    /\ cpc = "downloading" /\ cState[t] = "inflight"
    /\ LET ds == [cDefers EXCEPT ![cIndex] = Settle(@, Rejected(t))]
       IN  /\ cDefers' = ds
           /\ cQall' = QAll(cQall, ds, cIndex)
    /\ cState' = [cState EXCEPT ![t] = "handled"]
    /\ UNCHANGED <<cpc, cDest0, cDest, cFiles, cOuter, cTotal, cIndex, cEvents, cSave, cSaved>>
    /\ UNCHANGED <<fvars, bvars, pvars, svars, lvars, gvars, uvars>>

\* The .finally callback of one download (lines 895-899).
CloneDownloadFinally(t) ==
    /\ cpc = "downloading" /\ cState[t] = "handled"
    /\ cIndex' = cIndex + 1
    /\ cState' = [cState EXCEPT ![t] = "done"]
    /\ UNCHANGED <<cpc, cDest0, cDest, cFiles, cOuter, cTotal, cDefers, cQall, cEvents,
                   cSave, cSaved>>
    /\ UNCHANGED <<fvars, bvars, pvars, svars, lvars, gvars, uvars>>

\* The handlers attached to Q.all(promises) (lines 903-918): the project id
\* is saved, or the deferred is rejected.
CloneAllSettled ==
    /\ cpc = "downloading" /\ cQall.st # "pending" /\ cSave = "none" /\ cOuter.st = "pending"
    /\ IF cQall.st = "resolved"
          THEN /\ cSave' = "pending"
               /\ cOuter' = cOuter
          ELSE /\ cSave' = cSave
               /\ cOuter' = PRejected("download error")
    /\ UNCHANGED <<cpc, cDest0, cDest, cFiles, cTotal, cIndex, cDefers, cQall, cState,
                   cEvents, cSaved>>
    /\ UNCHANGED <<fvars, bvars, pvars, svars, lvars, gvars, uvars>>

\* localProperties.set resolves (lines 906-908).
CloneSaveOk ==
    /\ cSave = "pending"
    /\ cSave' = "ok"
    /\ cSaved' = TRUE
    /\ cOuter' = Settle(cOuter, PResolved("destDir"))
    /\ UNCHANGED <<cpc, cDest0, cDest, cFiles, cTotal, cIndex, cDefers, cQall, cState, cEvents>>
    /\ UNCHANGED <<fvars, bvars, pvars, svars, lvars, gvars, uvars>>

\* localProperties.set rejects (lines 909-911): the handler evaluates
\* `error`, a name that no enclosing scope declares, and throws a
\* ReferenceError before deferred.reject is called.
CloneSaveFailed ==
    /\ cSave = "pending"
    /\ cSave' = "failed"
    /\ UNCHANGED <<cpc, cDest0, cDest, cFiles, cOuter, cTotal, cIndex, cDefers, cQall,
                   cState, cEvents, cSaved>>
    /\ UNCHANGED <<fvars, bvars, pvars, svars, lvars, gvars, uvars>>

----------------------------------------------------------------------------
(* The session of a client: _login, logout, and the methods that go       *)
(* through _post.                                                         *)
Methods == {"downloadFile", "uploadFile", "getProjectFiles", "buildProject"}

\* What the caller passes: for uploadFile a local path that is missing,
\* cannot be read, or can; for buildProject params without or with a
\* platform.
ArgsOf(m) ==
    IF m = "uploadFile" THEN {"missing", "unreadable", "ok"}
    ELSE IF m = "buildProject" THEN {"noplatform", "ok"}
    ELSE {"ok"}

NoCall == [m |-> "none", arg |-> "none", stage |-> "none", out |-> PNone,
           quiet |-> FALSE, req |-> FALSE]

\* A plausible slip: _post has no guard.
PostRejectsNever == FALSE

\* if (!this._loggedIn) (line 257)
PostRejects == ~lLoggedIn

\* this._post(...) on behalf of call c, whose deferred is d (lines 250-295,
\* with the handlers of the caller): rejected at once when not logged in,
\* else waiting for getConfig.
Post(c, d) ==
    IF PostRejects
        THEN [c EXCEPT !.stage = "settled",
                       !.out = Settle(d, PRejected("Must be logged in to use this method."))]
        ELSE [c EXCEPT !.stage = "config", !.out = d]

SessionIdle ==
    /\ lpc = "idle" /\ lLoggedIn = FALSE /\ lTokens = "undefined"
    /\ lLogin = "none" /\ lLogout = "none" /\ lSession = "never"
    /\ lLoginFailed = FALSE /\ lCall = NoCall /\ lOps = 0

\* new Monaca() (line 79)
InitSession ==
    /\ lpc = "live" /\ lLoggedIn = FALSE /\ lTokens = "undefined"
    /\ lLogin = "none" /\ lLogout = "none" /\ lSession = "never"
    /\ lLoginFailed = FALSE /\ lCall = NoCall /\ lOps = 0

\* login / relogin (lines 398-417): the login request is on its way.
LoginCall ==
    /\ lpc = "live" /\ lLogin = "none" /\ lOps < MaxOps
    /\ lLogin' = "inflight"
    /\ lOps' = lOps + 1
    /\ UNCHANGED <<lpc, lLoggedIn, lTokens, lLogout, lSession, lLoginFailed, lCall>>
    /\ UNCHANGED <<fvars, bvars, pvars, svars, cvars, gvars, uvars>>

\* The login answered 200 and the tokens were stored (lines 454-466).
LoginOk ==
    /\ lLogin = "inflight"
    /\ lLogin' = "none"
    /\ lTokens' = "set"
    /\ lLoggedIn' = TRUE
    /\ lSession' = "active"
    /\ lLoginFailed' = FALSE
    /\ lCall' = [lCall EXCEPT !.quiet = FALSE]
    /\ UNCHANGED <<lpc, lLogout, lOps>>
    /\ UNCHANGED <<fvars, bvars, pvars, svars, cvars, gvars, uvars>>

\* The login failed (lines 429-431, 467-475, 478-480).
LoginFailed ==
    /\ lLogin = "inflight"
    /\ lLogin' = "none"
    /\ lLoginFailed' = TRUE
    /\ UNCHANGED <<lpc, lLoggedIn, lTokens, lLogout, lSession, lCall, lOps>>
    /\ UNCHANGED <<fvars, bvars, pvars, svars, cvars, gvars, uvars>>

\* logout (lines 563-566)
LogoutCall ==
    /\ lpc = "live" /\ lLogout = "none" /\ lOps < MaxOps
    /\ lLogout' = "inflight"
    /\ lOps' = lOps + 1
    /\ UNCHANGED <<lpc, lLoggedIn, lTokens, lLogin, lSession, lLoginFailed, lCall>>
    /\ UNCHANGED <<fvars, bvars, pvars, svars, cvars, gvars, uvars>>

\* The relogin token was cleared (lines 567-572).
LogoutOk ==
    /\ lLogout = "inflight"
    /\ lLogout' = "none"
    /\ lTokens' = "undefined"
    /\ lLoggedIn' = FALSE
    /\ lSession' = "loggedOut"
    /\ UNCHANGED <<lpc, lLogin, lLoginFailed, lCall, lOps>>
    /\ UNCHANGED <<fvars, bvars, pvars, svars, cvars, gvars, uvars>>

\* Clearing the relogin token failed (lines 573-575).
LogoutFailed ==
    /\ lLogout = "inflight"
    /\ lLogout' = "none"
    /\ UNCHANGED <<lpc, lLoggedIn, lTokens, lLogin, lSession, lLoginFailed, lCall, lOps>>
    /\ UNCHANGED <<fvars, bvars, pvars, svars, cvars, gvars, uvars>>

\* downloadFile (317-320), getProjectFiles (697-700), buildProject
\* (1290-1352) and uploadFile (366-369) up to their return: the first three
\* call _post at once, buildProject after its platform check; uploadFile
\* first asks whether the file exists.
ApiCall(m, a) ==
    /\ lpc = "live" /\ lOps < MaxOps
    /\ lCall.stage \in {"none", "settled", "thrown"}
    /\ lOps' = lOps + 1
    /\ LET c == [m |-> m, arg |-> a, stage |-> "exists", out |-> PPending,
                 quiet |-> (lSession # "active"), req |-> FALSE]
       IN  lCall' = IF m = "uploadFile" THEN c
                    ELSE IF a = "noplatform"
                            THEN Post(c, PRejected("Must specify build platform."))
                            ELSE Post(c, PPending)
    /\ UNCHANGED <<lpc, lLoggedIn, lTokens, lLogin, lLogout, lSession, lLoginFailed>>
    /\ UNCHANGED <<fvars, bvars, pvars, svars, cvars, gvars, uvars>>

\* The callbacks of fs.exists and fs.readFile in uploadFile (lines 369-380).
UploadRead ==
    /\ lCall.stage = "exists"
    /\ lCall' = IF lCall.arg = "missing"
                   THEN [lCall EXCEPT !.stage = "settled",
                                      !.out = PRejected("File does not exist.")]
                ELSE IF lCall.arg = "unreadable"
                   THEN [lCall EXCEPT !.stage = "settled", !.out = PRejected("EACCES")]
                ELSE Post(lCall, lCall.out)
    /\ UNCHANGED <<lpc, lLoggedIn, lTokens, lLogin, lLogout, lSession, lLoginFailed, lOps>>
    /\ UNCHANGED <<fvars, bvars, pvars, svars, cvars, gvars, uvars>>

\* getConfig resolved (lines 262-271): request.post is called with
\* this.tokens.api; when this.tokens was deleted meanwhile, reading it
\* throws and no request goes out.
PostSend ==
    /\ lCall.stage = "config"
    /\ lCall' = IF lTokens = "undefined"
                   THEN [lCall EXCEPT !.stage = "thrown"]
                   ELSE [lCall EXCEPT !.stage = "sent", !.req = TRUE]
    /\ UNCHANGED <<lpc, lLoggedIn, lTokens, lLogin, lLogout, lSession, lLoginFailed, lOps>>
    /\ UNCHANGED <<fvars, bvars, pvars, svars, cvars, gvars, uvars>>

\* The request is answered or fails (lines 272-286).
PostAnswer ==
    /\ lCall.stage = "sent"
    /\ \E to \in {PResolved("body")} \cup {PRejected(e) : e \in TransportErrors} :
          lCall' = [lCall EXCEPT !.stage = "settled", !.out = Settle(@, to)]
    /\ UNCHANGED <<lpc, lLoggedIn, lTokens, lLogin, lLogout, lSession, lLoginFailed, lOps>>
    /\ UNCHANGED <<fvars, bvars, pvars, svars, cvars, gvars, uvars>>

----------------------------------------------------------------------------
(* setConfig / removeConfig.  The content of the config file is followed   *)
(* as the set of its keys.  lockfile is a module outside this repository:  *)
(* lock creates the lock file exclusively or, while it exists, waits up to *)
(* `wait` milliseconds and then fails; unlock removes it.                  *)
Callers == 1..MaxCallers
ConfigKeys == {"http_proxy", "api_root"}
Json(keys) == [st |-> "json", keys |-> keys]
Absent == [st |-> "absent", keys |-> {}]
Corrupt == [st |-> "corrupt", keys |-> {}]

\* A plausible slip: the catch block rejects without calling unlock().
ExitNoUnlockInCatch(path) == IF path = "parse error" THEN "done" ELSE "unlocking"

\* Where a call that holds the lock goes on when it ends on path: unlock()
\* is called before the deferred is settled on the read error (line 1709),
\* in the callback of fs.writeFile (line 1719) and in the catch block
\* (line 1730); the lock file is removed when lockfile.unlock is done.
Exit(path) == "unlocking"

\* ob[key] = value / delete ob[key] (lines 1716, 1789)
Updated(keys, op) ==
    IF op.kind = "set" THEN keys \cup {op.key} ELSE keys \ {op.key}

ConfigIdle ==
    /\ gFile0 = Absent /\ gFile = Absent /\ gLock = 0
    /\ gOp = << >> /\ gpc = << >> /\ gOb = << >> /\ gOut = << >>
    /\ gExit = << >>

\* Callers about to call setConfig(key, value) or removeConfig(key).
InitConfig ==
    /\ gFile0 \in {Absent, Corrupt} \cup {Json(ks) : ks \in SUBSET ConfigKeys}
    /\ gFile = gFile0
    /\ gLock = 0
    /\ gOp \in [Callers -> [kind : {"set", "remove"}, key : ConfigKeys]]
    /\ gpc = [i \in Callers |-> "ready"]
    /\ gOb = [i \in Callers |-> {}]
    /\ gOut = [i \in Callers |-> "none"]
    /\ gExit = [i \in Callers |-> "none"]

\* setConfig / removeConfig up to the return (lines 1675-1741, 1751-1812):
\* _ensureConfigFile asks whether the config file exists.
ConfigCall(i) ==
    /\ gpc[i] = "ready"
    /\ gpc' = [gpc EXCEPT ![i] = "ensure"]
    /\ gOut' = [gOut EXCEPT ![i] = "pending"]
    /\ UNCHANGED <<gFile0, gFile, gLock, gOp, gOb, gExit>>
    /\ UNCHANGED <<fvars, bvars, pvars, svars, cvars, lvars, uvars>>

\* The callback of fs.exists(configFile) (lines 1633-1648): a missing file
\* is to be written as '{}'; an existing one resolves, and lockfile.lock is
\* called.
EnsureCheck(i) ==
    /\ gpc[i] = "ensure"
    /\ gpc' = [gpc EXCEPT ![i] = IF gFile.st = "absent" THEN "ensureWrite" ELSE "locking"]
    /\ UNCHANGED <<gFile0, gFile, gLock, gOp, gOb, gOut, gExit>>
    /\ UNCHANGED <<fvars, bvars, pvars, svars, cvars, lvars, uvars>>

\* fs.writeFile(configFile, '{}') done (lines 1635-1642).
EnsureWriteOk(i) ==
    /\ gpc[i] = "ensureWrite"
    /\ gFile' = Json({})
    /\ gpc' = [gpc EXCEPT ![i] = "locking"]
    /\ UNCHANGED <<gFile0, gLock, gOp, gOb, gOut, gExit>>
    /\ UNCHANGED <<fvars, bvars, pvars, svars, cvars, lvars, uvars>>

\* fs.writeFile(configFile, '{}') failed (lines 1636-1638, 1735-1737).
EnsureWriteFailed(i) ==
    /\ gpc[i] = "ensureWrite"
    /\ gpc' = [gpc EXCEPT ![i] = "done"]
    /\ gOut' = [gOut EXCEPT ![i] = "rejected"]
    /\ gExit' = [gExit EXCEPT ![i] = "ensure error"]
    /\ UNCHANGED <<gFile0, gFile, gLock, gOp, gOb>>
    /\ UNCHANGED <<fvars, bvars, pvars, svars, cvars, lvars, uvars>>

\* lockfile.lock calls back without error (lines 1695-1707): the lock file
\* was created, fs.readFile is called.
LockAcquired(i) ==
    /\ gpc[i] = "locking" /\ gLock = 0
    /\ gLock' = i
    /\ gpc' = [gpc EXCEPT ![i] = "reading"]
    /\ UNCHANGED <<gFile0, gFile, gOp, gOb, gOut, gExit>>
    /\ UNCHANGED <<fvars, bvars, pvars, svars, cvars, lvars, uvars>>

\* lockfile.lock calls back with an error (lines 1695-1698): the lock file
\* existed for the whole wait.
LockTimedOut(i) ==
    /\ gpc[i] = "locking" /\ gLock # 0
    /\ gpc' = [gpc EXCEPT ![i] = "done"]
    /\ gOut' = [gOut EXCEPT ![i] = "rejected"]
    /\ gExit' = [gExit EXCEPT ![i] = "lock error"]
    /\ UNCHANGED <<gFile0, gFile, gLock, gOp, gOb>>
    /\ UNCHANGED <<fvars, bvars, pvars, svars, cvars, lvars, uvars>>

\* The callback of fs.readFile with the data (lines 1707-1718, 1729-1732):
\* the data is parsed and the object updated, fs.writeFile is called; data
\* that does not parse unlocks and rejects.
ConfigRead(i) ==
    /\ gpc[i] = "reading" /\ gFile.st # "absent"
    /\ IF gFile.st = "corrupt"
          THEN /\ gpc' = [gpc EXCEPT ![i] = Exit("parse error")]
               /\ gOut' = [gOut EXCEPT ![i] = "rejected"]
               /\ gExit' = [gExit EXCEPT ![i] = "parse error"]
               /\ gOb' = gOb
          ELSE /\ gpc' = [gpc EXCEPT ![i] = "writing"]
               /\ gOb' = [gOb EXCEPT ![i] = Updated(gFile.keys, gOp[i])]
               /\ UNCHANGED <<gOut, gExit>>
    /\ UNCHANGED <<gFile0, gFile, gLock, gOp>>
    /\ UNCHANGED <<fvars, bvars, pvars, svars, cvars, lvars, uvars>>

\* The callback of fs.readFile with an error (lines 1707-1711).
ConfigReadFailed(i) ==
    /\ gpc[i] = "reading"
    /\ gpc' = [gpc EXCEPT ![i] = Exit("read error")]
    /\ gOut' = [gOut EXCEPT ![i] = "rejected"]
    /\ gExit' = [gExit EXCEPT ![i] = "read error"]
    /\ UNCHANGED <<gFile0, gFile, gLock, gOp, gOb>>
    /\ UNCHANGED <<fvars, bvars, pvars, svars, cvars, lvars, uvars>>

\* The callback of fs.writeFile without error (lines 1718-1727).
ConfigWriteOk(i) ==
    /\ gpc[i] = "writing"
    /\ gFile' = Json(gOb[i])
    /\ gpc' = [gpc EXCEPT ![i] = Exit("written")]
    /\ gOut' = [gOut EXCEPT ![i] = "resolved"]
    /\ gExit' = [gExit EXCEPT ![i] = "written"]
    /\ UNCHANGED <<gFile0, gLock, gOp, gOb>>
    /\ UNCHANGED <<fvars, bvars, pvars, svars, cvars, lvars, uvars>>

\* The callback of fs.writeFile with an error (lines 1718-1723).
ConfigWriteFailed(i) ==
    /\ gpc[i] = "writing"
    /\ gpc' = [gpc EXCEPT ![i] = Exit("write error")]
    /\ gOut' = [gOut EXCEPT ![i] = "rejected"]
    /\ gExit' = [gExit EXCEPT ![i] = "write error"]
    /\ UNCHANGED <<gFile0, gFile, gLock, gOp, gOb>>
    /\ UNCHANGED <<fvars, bvars, pvars, svars, cvars, lvars, uvars>>

\* lockfile.unlock has removed the lock file (lines 1700-1706).
Unlocked(i) ==
    /\ gpc[i] = "unlocking"
    /\ gLock' = IF gLock = i THEN 0 ELSE gLock
    /\ gpc' = [gpc EXCEPT ![i] = "done"]
    /\ UNCHANGED <<gFile0, gFile, gOp, gOb, gOut, gExit>>
    /\ UNCHANGED <<fvars, bvars, pvars, svars, cvars, lvars, uvars>>

----------------------------------------------------------------------------
(* uploadProject called a second time on the same project directory after *)
(* a first call resolved.  The server is outside this repository: a file   *)
(* saved through /file/save is listed by /file/tree under the path it was  *)
(* posted with, with the hash of the content posted, which is the hash    *)
(* getLocalProjectFiles computes of the same content.                      *)

\* A plausible slip: unchanged files are not filtered out of the upload.
UploadSetUnfiltered(disk, remote) ==
    {k \in DOMAIN ScannedTree(disk) : ScannedTree(disk)[k].type = "file" /\ fileFilter(k)}

\* The keys uploadFile is called for (lines 1076-1092).
UploadSet(disk, remote) ==
    TransferKeys("upload", filterFiles(ScannedTree(disk), remote))

\* The remote tree after the save of line 378 was answered for key: the
\* content read from the file (line 373) is stored under the path posted.
Saved(remote, disk, key) ==
    [k \in DOMAIN remote \cup {key} |-> IF k = key THEN disk[key] ELSE remote[k]]

RepeatIdle ==
    /\ upc = "idle" /\ uRound = 0 /\ uDisk = << >> /\ uRemote = << >>
    /\ uKeys = {} /\ uPending = {}

\* A project directory and a remote project, uploadProject about to be
\* called for the first time.
InitRepeat ==
    /\ upc = "ready" /\ uRound = 0
    /\ \E S \in {T \in SUBSET SyncPaths : Cardinality(T) <= MaxFiles} :
          /\ uDisk \in SyncTrees(S)
          /\ uRemote \in SyncTrees(S)
    /\ uKeys = {} /\ uPending = {}

\* uploadProject(projectDir) up to the return of the handler of Q.all
\* (lines 1069-1128): the trees are read and diffed, uploadFile is called
\* for every key.
UploadCall ==
    /\ upc \in {"ready", "resolved"} /\ uRound < 2
    /\ uRound' = uRound + 1
    /\ upc' = "transferring"
    /\ uKeys' = UploadSet(uDisk, uRemote)
    /\ uPending' = UploadSet(uDisk, uRemote)
    /\ UNCHANGED <<uDisk, uRemote>>
    /\ UNCHANGED <<fvars, bvars, pvars, svars, cvars, lvars, gvars>>

\* uploadFile resolves for one key (lines 371-384): the file was read and
\* the save was answered.
UploadFileOk(k) ==
    /\ upc \in {"transferring", "rejected"} /\ k \in uPending
    /\ uRemote' = Saved(uRemote, uDisk, k)
    /\ uPending' = uPending \ {k}
    /\ UNCHANGED <<upc, uRound, uDisk, uKeys>>
    /\ UNCHANGED <<fvars, bvars, pvars, svars, cvars, lvars, gvars>>

\* uploadFile rejects for one key (lines 368-376, 385-387): the batch is
\* rejected (lines 1118-1120, 1134-1136).
UploadFileFailed(k) ==
    /\ upc \in {"transferring", "rejected"} /\ k \in uPending
    /\ uPending' = uPending \ {k}
    /\ upc' = "rejected"
    /\ UNCHANGED <<uRound, uDisk, uRemote, uKeys>>
    /\ UNCHANGED <<fvars, bvars, pvars, svars, cvars, lvars, gvars>>

\* Q.all(promises) resolves (lines 1130-1133): every uploadFile resolved.
UploadResolved ==
    /\ upc = "transferring" /\ uPending = {}
    /\ upc' = "resolved"
    /\ UNCHANGED <<uRound, uDisk, uRemote, uKeys, uPending>>
    /\ UNCHANGED <<fvars, bvars, pvars, svars, cvars, lvars, gvars>>

----------------------------------------------------------------------------
InitFilter == InitTrees /\ BatchIdle /\ BuildIdle /\ SyncIdle /\ CloneIdle /\ SessionIdle /\ ConfigIdle /\ RepeatIdle
NextFilter == FilterFilesCall
SpecFilter == InitFilter /\ [][NextFilter]_vars

InitBatch == InitKeys /\ FilterIdle /\ BuildIdle /\ SyncIdle /\ CloneIdle /\ SessionIdle /\ ConfigIdle /\ RepeatIdle
NextBatch ==
    \/ StartBatch
    \/ \E t \in Tasks : TaskSucceeded(t)
    \/ \E t \in Tasks : TaskFailed(t)
    \/ \E t \in Tasks : TaskFinally(t)
    \/ BatchSettle
SpecBatch == InitBatch /\ [][NextBatch]_vars

\* The jobs of the promise queue always run, and every transfer that was
\* started completes: its request is answered or fails.
BatchFairness ==
    /\ WF_vars(StartBatch)
    /\ WF_vars(BatchSettle)
    /\ \A t \in 1..MaxTasks : WF_vars(t \in Tasks /\ (TaskSucceeded(t) \/ TaskFailed(t)))
    /\ \A t \in 1..MaxTasks : WF_vars(t \in Tasks /\ TaskFinally(t))
SpecBatchFair == SpecBatch /\ BatchFairness

InitBuildSpec == InitBuild /\ FilterIdle /\ BatchIdle /\ SyncIdle /\ CloneIdle /\ SessionIdle /\ ConfigIdle /\ RepeatIdle
NextBuild ==
    \/ BuildProjectCall
    \/ SubmitOk
    \/ SubmitFailed
    \/ Tick
    \/ SendStatus
    \/ StatusRunning
    \/ StatusFinish
    \/ StatusFail
    \/ StatusError
    \/ FailFetchOk
    \/ FailFetchFailed
    \/ FinalFetchOk
    \/ FinalFetchFailed
SpecBuild == InitBuildSpec /\ [][NextBuild]_vars

\* A client that runs one of the operations that report progress: a
\* transfer batch or a build.
InitProgress == InitBatch \/ InitBuildSpec
NextProgress == NextBatch \/ NextBuild
SpecProgress == InitProgress /\ [][NextProgress]_vars

InitSyncSpec == InitSync /\ FilterIdle /\ BatchIdle /\ BuildIdle /\ CloneIdle /\ SessionIdle /\ ConfigIdle /\ RepeatIdle
NextSync ==
    \/ SyncCall
    \/ LookupOk
    \/ LookupFailed
    \/ ScanOk
    \/ ScanFailed
    \/ FetchOk
    \/ FetchFailed
    \/ StartTransfers
SpecSync == InitSyncSpec /\ [][NextSync]_vars

InitCloneSpec == InitClone /\ FilterIdle /\ BatchIdle /\ BuildIdle /\ SyncIdle /\ SessionIdle /\ ConfigIdle /\ RepeatIdle
NextClone ==
    \/ CloneCall
    \/ CloneFetchFailed
    \/ CloneFetchOk
    \/ \E t \in DOMAIN cState : CloneDownloadOk(t)
    \/ \E t \in DOMAIN cState : CloneDownloadFailed(t)
    \/ \E t \in DOMAIN cState : CloneDownloadFinally(t)
    \/ CloneAllSettled
    \/ CloneSaveOk
    \/ CloneSaveFailed
SpecClone == InitCloneSpec /\ [][NextClone]_vars

InitSessionSpec ==
    InitSession /\ FilterIdle /\ BatchIdle /\ BuildIdle /\ SyncIdle /\ CloneIdle
        /\ ConfigIdle /\ RepeatIdle
NextSession ==
    \/ LoginCall
    \/ LoginOk
    \/ LoginFailed
    \/ LogoutCall
    \/ LogoutOk
    \/ LogoutFailed
    \/ \E m \in Methods : \E a \in ArgsOf(m) : ApiCall(m, a)
    \/ UploadRead
    \/ PostSend
    \/ PostAnswer
SpecSession == InitSessionSpec /\ [][NextSession]_vars

InitConfigSpec ==
    InitConfig /\ FilterIdle /\ BatchIdle /\ BuildIdle /\ SyncIdle /\ CloneIdle
        /\ SessionIdle /\ RepeatIdle
NextConfig ==
    \/ \E i \in Callers : ConfigCall(i)
    \/ \E i \in Callers : EnsureCheck(i)
    \/ \E i \in Callers : EnsureWriteOk(i)
    \/ \E i \in Callers : EnsureWriteFailed(i)
    \/ \E i \in Callers : LockAcquired(i)
    \/ \E i \in Callers : LockTimedOut(i)
    \/ \E i \in Callers : ConfigRead(i)
    \/ \E i \in Callers : ConfigReadFailed(i)
    \/ \E i \in Callers : ConfigWriteOk(i)
    \/ \E i \in Callers : ConfigWriteFailed(i)
    \/ \E i \in Callers : Unlocked(i)
SpecConfig == InitConfigSpec /\ [][NextConfig]_vars

InitRepeatSpec ==
    InitRepeat /\ FilterIdle /\ BatchIdle /\ BuildIdle /\ SyncIdle /\ CloneIdle
        /\ SessionIdle /\ ConfigIdle
NextRepeat ==
    \/ UploadCall
    \/ \E k \in SyncPaths : UploadFileOk(k)
    \/ \E k \in SyncPaths : UploadFileFailed(k)
    \/ UploadResolved
SpecRepeat == InitRepeatSpec /\ [][NextRepeat]_vars

----------------------------------------------------------------------------
(* Claims about _filterFiles (SpecFilter) *)

\* The entries of the original destination that are files and are absent
\* from the source or differ from it in hash.
MustTransfer ==
    {k \in DOMAIN dst0 : /\ dst0[k].type = "file"
                         /\ (k \notin DOMAIN src \/ dst0[k].hash # src[k].hash)}

\* C1: after _filterFiles(dst, src), dst holds exactly the entries of the
\* original dst that are files and are absent from src or differ from the
\* src entry of the same path in hash; no other path appears.
C1_FilterExact ==
    fpc = "done" => dst = [k \in MustTransfer |-> dst0[k]]

\* C1's case: one entry was dropped as unchanged, one kept as changed and
\* one kept as new.
C1_Witness ==
    /\ fpc = "done"
    /\ \E k \in DOMAIN dst0 : /\ dst0[k].type = "file" /\ k \in DOMAIN src
                              /\ dst0[k].hash = src[k].hash /\ k \notin DOMAIN dst
    /\ \E k \in DOMAIN dst : k \in DOMAIN src /\ dst[k].hash # src[k].hash
    /\ \E k \in DOMAIN dst : k \notin DOMAIN src

OnlyFiles(tree) == \A k \in DOMAIN tree : tree[k].type = "file"

\* C22: _filterFiles applied to a destination and a source of the same
\* content, all of it files, removes every entry.
C22_DiffWithItselfEmpty ==
    (fpc = "done" /\ dst0 = src /\ OnlyFiles(src)) => dst = << >>

\* C22's case: a tree of several files of different hashes was filtered
\* against a tree of the same content.
C22_Witness ==
    /\ fpc = "done" /\ dst0 = src /\ OnlyFiles(src)
    /\ \E j, k \in DOMAIN src : j # k /\ src[j].hash # src[k].hash

\* C32: a call of _filterFiles leaves the source tree as it was and only
\* deletes entries of the destination: no path is added and every entry
\* kept has the type and the hash it had; after the call the destination
\* object itself is the filtered tree (no directory, no file that the
\* source has with the same hash).
C32_OnlyDeletesFromDst ==
    [][/\ src' = src
       /\ DOMAIN dst' \subseteq DOMAIN dst
       /\ \A k \in DOMAIN dst' : dst'[k] = dst[k]
       /\ fpc' = "done" =>
             \A k \in DOMAIN dst' :
                /\ dst'[k].type = "file"
                /\ k \in DOMAIN src' => dst'[k].hash # src'[k].hash]_vars

\* C32's case: a call deleted an entry and kept a file that the source
\* has with another hash, next to a source entry the destination lacks.
C32_Witness ==
    /\ fpc = "done"
    /\ DOMAIN dst # DOMAIN dst0 /\ dst # << >>
    /\ \E k \in DOMAIN dst : k \in DOMAIN src /\ dst[k].hash # src[k].hash
    /\ \E k \in DOMAIN src : k \notin DOMAIN dst0

----------------------------------------------------------------------------
(* Claims about the transfer batch (SpecBatch) *)

Handled == {t \in DOMAIN tstate : tstate[t] \in {"handled", "done"}}

\* The first task that failed, in completion order (0: none failed).
FirstFailed ==
    LET failedAt == {i \in DOMAIN order : tres[order[i]] = "fail"}
    IN  IF failedAt = {} THEN 0
        ELSE order[CHOOSE i \in failedAt : \A j \in failedAt : i <= j]

\* C2: the batch resolves only when every transfer of the batch has
\* succeeded (none pending, none failed), and it resolves with the
\* project id.
C2_ResolvesOnlyWhenAllSucceeded ==
    bOutcome.st = "resolved" =>
        /\ \A t \in DOMAIN tres : tres[t] = "ok"
        /\ bOutcome.val = "projectId"

\* C2's case: a batch of several transfers has resolved.
C2_Witness ==
    bOutcome.st = "resolved" /\ bN >= 2

\* C3: once a transfer has failed the batch is decided as failed with the
\* error of the first transfer that failed, and the outcome delivered is
\* that error.
C3_FirstFailureWins ==
    FirstFailed # 0 =>
        /\ qall = Rejected(FirstFailed)
        /\ bOutcome.st # "pending" => bOutcome = Rejected(FirstFailed)

EventsOf(t) == {i \in DOMAIN bEvents : bEvents[i].path.of = t}
PositionOf(t) == CHOOSE i \in DOMAIN order : order[i] = t

\* C4: every transfer that has completed, successfully or not, has emitted
\* exactly one progress event, which carries its path and the count of
\* transfers completed so far (counted without or with itself).  Stated
\* for the completions that come while the batch is undecided: a settled
\* deferred accepts no notification.
C4_OneEventPerCompletion ==
    bOutcome.st = "pending" =>
        \A t \in Handled :
            /\ Cardinality(EventsOf(t)) = 1
            /\ \A i \in EventsOf(t) :
                  /\ bEvents[i].path = ResolvedPath(t)
                  /\ bEvents[i].index \in {PositionOf(t) - 1, PositionOf(t)}

\* C16: a failing transfer does not stop its siblings: a transfer in flight
\* stays in flight until its own handler runs, which it can whatever has
\* failed before, and once the batch outcome is decided no later completion
\* changes it.
C16_SiblingsContinue ==
    /\ [](\A t \in DOMAIN tstate :
            (bpc = "running" /\ tstate[t] = "inflight") =>
                (ENABLED TaskSucceeded(t) /\ ENABLED TaskFailed(t)))
    /\ [][/\ \A t \in DOMAIN tstate :
                tstate[t] = "inflight" => tstate'[t] \in {"inflight", "handled"}
          /\ qall.st # "pending" => qall' = qall
          /\ bOutcome.st # "pending" => bOutcome' = bOutcome]_vars

\* C16's case: the first transfer to complete failed and decided the
\* batch, and every sibling completed afterwards, one of them by failing.
C16_Witness ==
    /\ bN >= 3
    /\ Len(order) = bN
    /\ \A t \in DOMAIN tstate : tstate[t] = "done"
    /\ tres[order[1]] = "fail"
    /\ bOutcome = Rejected(order[1])
    /\ \E i \in 2..bN : tres[order[i]] = "fail"
    /\ \E i \in 2..bN : tres[order[i]] = "ok"

\* C17: when the batch has failed, every transfer that completed before the
\* failing transfer has emitted its progress event, so the number of
\* events tells how many transfers had completed before the failure.
C17_EventsBeforeFailure ==
    bOutcome.st = "rejected" =>
        LET before == {order[i] : i \in 1..(PositionOf(bOutcome.err) - 1)}
        IN  /\ \A t \in before : Cardinality(EventsOf(t)) = 1
            /\ Len(bEvents) >= Cardinality(before)

\* C18: all transfers of a batch are started together: whenever one
\* transfer has been started, every transfer of the batch has been.
C18_AllDispatchedAtOnce ==
    \A t \in DOMAIN tstate :
        tstate[t] # "none" => \A u \in DOMAIN tstate : tstate[u] # "none"

\* C18's case: a batch of three transfers, all in flight at once.
C18_Witness ==
    /\ bpc = "running" /\ bN >= 3
    /\ \A t \in DOMAIN tstate : tstate[t] = "inflight"

\* C19: progress events are emitted in completion order: the k-th event
\* carries the path of the k-th transfer to complete.
C19_EventsInCompletionOrder ==
    \A k \in DOMAIN bEvents :
        /\ k \in DOMAIN order
        /\ bEvents[k].path = ResolvedPath(order[k])

\* C20: the total carried by every progress event is the number of
\* transfers of the batch, and the index carried never exceeds it.
C20_TotalFixed ==
    \A k \in DOMAIN bEvents :
        /\ bEvents[k].total = bN
        /\ bEvents[k].index <= bEvents[k].total

\* C20's case: several events of one batch, emitted at different values of
\* the counter.
C20_Witness ==
    /\ bN >= 3
    /\ Len(bEvents) >= 2
    /\ bEvents[1].index # bEvents[Len(bEvents)].index

\* C21: a batch whose transfer set is empty starts no transfer, emits no
\* progress event and resolves as success.
C21_EmptyBatchResolves ==
    /\ [](bN = 0 => (tstate = << >> /\ order = << >> /\ bEvents = << >>
                        /\ bOutcome.st # "rejected"))
    /\ (bN = 0 /\ bpc = "ready") ~> (bN = 0 /\ bOutcome = Resolved("projectId"))

\* C21's case: an empty batch has resolved.
C21_Witness ==
    bN = 0 /\ bpc = "running" /\ bOutcome = Resolved("projectId") /\ bEvents = << >>

\* C28: whatever the interleaving of the completion handlers and of the
\* increments of the shared counter, when the N transfers of a batch have
\* completed each of the N slots has been settled (N completions settle
\* one slot each, so each slot exactly once); the batch is then decided:
\* as success when every transfer succeeded, as failure when one failed.
C28_EverySlotSettled ==
    (bpc = "running" /\ \A t \in DOMAIN tstate : tstate[t] = "done") =>
        /\ \A i \in DOMAIN defers : defers[i].st # "pending"
        /\ (\A t \in DOMAIN tres : tres[t] = "ok") => qall.st = "resolved"
        /\ (\E t \in DOMAIN tres : tres[t] = "fail") => qall.st = "rejected"

----------------------------------------------------------------------------
(* Claims about buildProject (SpecBuild) *)

Settled(d) == d.st \in {"resolved", "rejected"}

\* C5: buildProject without params.platform fails with the validation
\* error and sends nothing to the build service: no build request, no
\* status query, no result fetch.
C5_NoRequestWithoutPlatform ==
    (ppc = "called" /\ ~platform) =>
        /\ outer = PRejected("Must specify build platform.")
        /\ submit \in {"none", "rejected"}
        /\ counter = 0 /\ sent = 0
        /\ finalFetch = "none" /\ failFetch = 0

\* C6: while no status response reports finished, at most 80 status
\* queries are started and sent, and none is started once pollBuild has
\* failed with the timeout error.
C6_AtMost80Queries ==
    /\ [](~everFinished => (counter <= MaxAttempts /\ sent <= MaxAttempts))
    /\ [][(~everFinished /\ poll = PRejected("Build timed out")) => counter' = counter]_vars

\* C7: when the build was submitted, no status response reported finished
\* and no status query failed, then once the attempts are used up
\* buildProject has failed with 'Build timed out'.
C7_TimesOut ==
    (submit = "ok" /\ ~everFinished /\ ~everQueryFailed /\ counter > MaxAttempts) =>
        outer = PRejected("Build timed out")

\* C8: once the promise of buildProject has settled the timer is stopped:
\* it runs no further callback and starts no further status query.
C8_TimerStopped ==
    /\ [](Settled(outer) => ~interval)
    /\ [][Settled(outer) => counter' = counter]_vars

\* C9: if the k-th status query is the first answered finished/'finish',
\* exactly k status queries were started, the result is fetched, and
\* buildProject resolves with the payload that fetch returned.  Stated for
\* the runs in which every status query is answered before the timer
\* runs again.
C9_ResolvesAfterKPolls ==
    (firstFinishK # 0 /\ ~overlap) =>
        /\ counter = firstFinishK
        /\ finalFetch # "none"
        /\ finalPayload # "none" => outer = PResolved(finalPayload)

\* C10: if a status response reports finished with a status other than
\* 'finish', buildProject never resolves, and it fails with the error
\* message of the fetched result.  Stated for the runs in which every
\* status query is answered before the timer runs again.
C10_FailsWithResultMessage ==
    (everFailStatus /\ ~overlap) =>
        /\ outer.st # "resolved"
        /\ failMessage \in ErrorMessages => outer = PRejected(failMessage)

\* C11: if a status query itself fails, polling stops at once and
\* buildProject fails with that error; the failed query is not retried and
\* no new status query is started after the failure was observed.  Stated
\* for the runs in which every status query is answered before the timer
\* runs again.
C11_QueryFailureStopsPolling ==
    /\ []((everQueryFailed /\ ~overlap) =>
            (~interval /\ outer.st = "rejected" /\ outer.val \in TransportErrors))
    /\ [][everQueryFailed => counter' = counter]_vars

----------------------------------------------------------------------------
(* Claims about the transfer set of uploadProject / downloadProject.      *)

\* The paths of the entries of d that are files and are absent from s or
\* differ from the entry of s in hash.
DiffPaths(d, s) ==
    {k \in DOMAIN d : /\ d[k].type = "file"
                      /\ (k \notin DOMAIN s \/ d[k].hash # s[k].hash)}

\* The positions at which a segment of the path begins.
SegmentStarts(fn) == {i \in 2..Len(fn) : fn[i - 1] = "/"}

HasHiddenSegment(fn) == \E i \in SegmentStarts(fn) : fn[i] = "."

IsTopLevel(fn) == SegmentStarts(fn) = {2}

\* The first segment of a path that has more than one segment.
FirstDir(fn) ==
    LET second == CHOOSE i \in SegmentStarts(fn) \ {2} :
                      \A j \in SegmentStarts(fn) \ {2} : i <= j
    IN  SubSeq(fn, 2, second - 2)

ProjectDirs == {<<"w", "w", "w">>, <<"m", "e", "r", "g", "e", "s">>,
                <<"p", "l", "u", "g", "i", "n", "s">>}

InUploadScope(fn) ==
    /\ ~HasHiddenSegment(fn)
    /\ IsTopLevel(fn) \/ FirstDir(fn) \in ProjectDirs

SourceTree == IF sDir = "upload" THEN sLocalFiles ELSE sRemoteFiles

\* C13: no transfer set contains a directory entry: the output of the diff
\* has no entry of type 'dir', and neither uploadProject nor
\* downloadProject starts a transfer for a directory path.
C13_NoDirectoryTransferred ==
    spc = "transferring" =>
        /\ \A k \in DOMAIN sDiff : sDiff[k].type # "dir"
        /\ \A k \in sStarted : SourceTree[k].type # "dir"

\* C13's case: the tree to transfer from held a directory that the other
\* side does not have, and a file; the file is transferred.
C13_Witness ==
    /\ spc = "transferring"
    /\ sStarted # {}
    /\ \E k \in DOMAIN SourceTree :
          /\ SourceTree[k].type = "dir"
          /\ k \notin DOMAIN (IF sDir = "upload" THEN sRemoteFiles ELSE sLocalFiles)

\* C14: the local metadata file /.monaca/local_properties.json is never
\* transferred: it is in no upload transfer set and in no download transfer
\* set, whatever the local and remote trees contain.
C14_LocalPropertiesNeverTransferred ==
    spc = "transferring" => LocalProperties \notin sStarted

\* The errors of the stages that have failed.
StageErrors ==
    (IF sLookup = "failed" THEN {"lookup error"} ELSE {})
        \cup (IF sScan = "failed" THEN {"scan error"} ELSE {})
        \cup (IF sFetch = "failed" THEN {"fetch error"} ELSE {})

\* C15: if the local scan, the remote tree fetch or the project id lookup
\* fails, uploadProject / downloadProject fails with that error and no
\* uploadFile or downloadFile is ever started.
C15_PreludeFailureAborts ==
    StageErrors # {} =>
        /\ sOutcome.st = "rejected"
        /\ sOutcome.val \in StageErrors
        /\ sStarted = {}
        /\ spc = "failed"

\* C15's case: the remote tree arrived with a file to transfer, and the
\* scan of the project directory failed.
C15_Witness ==
    /\ sScan = "failed"
    /\ sFetch = "ok"
    /\ \E k \in DOMAIN sRemoteFiles : sRemoteFiles[k].type = "file"
    /\ sOutcome = PRejected("scan error")

\* The segments of a path, as the set of <<start, end>> positions.
SegmentsOf(fn) ==
    {<<i, j>> \in SegmentStarts(fn) \X (1..Len(fn)) :
        /\ i <= j
        /\ \A m \in i..j : fn[m] # "/"
        /\ (j = Len(fn) \/ fn[j + 1] = "/")}

\* Some segment of the path is the name node_modules.
InNodeModules(fn) ==
    \E seg \in SegmentsOf(fn) :
        SubSeq(fn, seg[1], seg[2]) =
            <<"n", "o", "d", "e", "_", "m", "o", "d", "u", "l", "e", "s">>

\* C23: getLocalProjectFiles resolves with one entry for every file and
\* directory of the listing, except what lies in a node_modules directory
\* at any depth and the local properties file; nothing else is left out.
C23_ScanCoversTree ==
    sScan = "ok" =>
        sLocalFiles = [k \in {x \in DOMAIN sDisk : ~InNodeModules(x) /\ x # LocalProperties}
                          |-> sDisk[k]]

----------------------------------------------------------------------------
(* Further claims about buildProject (SpecBuild) *)

\* C24 as stated: the build request carries framework_version '3.5' when
\* the caller left it unset and purpose 'debug' when the caller left it
\* unset, and every value the caller did set, unchanged.
C24_DefaultsWhenUnset ==
    \A req \in posted :
        /\ req.framework_version =
              IF cParams.framework_version = "undefined" THEN "3.5"
              ELSE cParams.framework_version
        /\ req.purpose =
              IF cParams.purpose = "undefined" THEN "debug" ELSE cParams.purpose

\* C24 amended: the build request carries framework_version '3.5' when the
\* caller left it unset or passed an empty value, purpose 'debug'
\* likewise, and every non-empty value the caller did set, unchanged.
C24_DefaultsWhenEmpty ==
    \A req \in posted :
        /\ cParams.framework_version \in {"undefined", ""} => req.framework_version = "3.5"
        /\ cParams.framework_version \notin {"undefined", ""} =>
              req.framework_version = cParams.framework_version
        /\ cParams.purpose \in {"undefined", ""} => req.purpose = "debug"
        /\ cParams.purpose \notin {"undefined", ""} => req.purpose = cParams.purpose

\* C24's case: a request was issued for a caller who set the purpose and
\* left the framework version out.
C24_Witness ==
    /\ cParams.framework_version = "undefined" /\ cParams.purpose = "release"
    /\ \E req \in posted : req.framework_version = "3.5" /\ req.purpose = "release"

\* C29: in one buildProject orchestration the result endpoint is requested
\* at most once, whatever the overlap of the status queries and however
\* many status responses report the job finished.
C29_ResultRequestedOnce ==
    resultPosts <= 1

----------------------------------------------------------------------------
(* Claims about the progress events of both operations (SpecProgress) *)

\* C30: once the promise of a transfer batch or of a build has settled, no
\* progress event reaches the caller and the outcome does not change,
\* whatever completes or answers afterwards.
C30_NothingAfterSettlement ==
    [][/\ bOutcome.st # "pending" => (bEvents' = bEvents /\ bOutcome' = bOutcome)
       /\ Settled(outer) => (notes' = notes /\ outer' = outer)]_vars

\* C30's case: a build timed out before any status response came, and a
\* status response reporting the job finished was handled afterwards
\* without a notification.
C30_Witness ==
    /\ platform /\ outer = PRejected("Build timed out")
    /\ everFinished /\ notes = 0

----------------------------------------------------------------------------
(* Claims about cloneProject (SpecClone) *)

\* C25: cloneProject fails whenever destDir already exists, also as an
\* empty directory; it then downloads no file and records no project id.
C25_FailsIfDestExists ==
    (cDest0 \in {"emptydir", "nonempty"} /\ cpc # "ready") =>
        /\ cOuter.st = "rejected"
        /\ cState = << >>
        /\ ~cSaved

\* C33: once the remote tree was fetched, cloneProject settles its promise:
\* while the promise is pending some step of the clone is still to come.
\* For a tree without file entries nothing is downloaded, no progress
\* event is emitted, and the promise settles only as resolved with destDir
\* after the project id was saved.
C33_SettlesAfterFetch ==
    /\ (cpc \in {"thrown", "downloading"} /\ cOuter.st = "pending") => ENABLED NextClone
    /\ (cpc \in {"thrown", "downloading"} /\ FileCount(cFiles) = 0) =>
          /\ cState = << >> /\ cEvents = << >>
          /\ Settled(cOuter) => (cOuter = PResolved("destDir") /\ cSaved)

\* C34: when every download succeeded and saving the project id failed,
\* the promise of cloneProject is rejected.
C34_SaveFailureRejects ==
    cSave = "failed" => cOuter.st = "rejected"

----------------------------------------------------------------------------
(* Claims about the session (SpecSession) *)

\* The call is past the point where _post is reached.
Guarded(c) == c.m # "none" /\ c.stage # "exists"

\* C26 as stated: while the client is not logged in (never logged in, a
\* login failed, or after a successful logout), downloadFile, uploadFile of
\* an existing file, getProjectFiles and buildProject reject with 'Must be
\* logged in to use this method.' and issue no HTTP request; after a
\* logout the session tokens are removed.
C26_RejectsWhenLoggedOut ==
    /\ []((lCall.quiet /\ Guarded(lCall) /\ lCall.arg # "missing") =>
            /\ lCall.out = PRejected("Must be logged in to use this method.")
            /\ ~lCall.req)
    /\ [](lSession = "loggedOut" => lTokens = "undefined")
    /\ [][lSession # "active" => (lCall'.req => lCall.req /\ lCall'.m = lCall.m)]_vars

\* C26 amended: the same for downloadFile, uploadFile of an existing file
\* that can be read, getProjectFiles and buildProject called with a
\* platform.
C26_RejectsValidCallsWhenLoggedOut ==
    /\ []((lCall.quiet /\ Guarded(lCall) /\ lCall.arg = "ok") =>
            /\ lCall.out = PRejected("Must be logged in to use this method.")
            /\ ~lCall.req)
    /\ [](lSession = "loggedOut" => lTokens = "undefined")
    /\ [][lSession # "active" => (lCall'.req => lCall.req /\ lCall'.m = lCall.m)]_vars

\* C26's case: after a successful logout an upload of a readable file was
\* rejected by the guard, and a login has failed since.
C26_Witness ==
    /\ lSession = "loggedOut" /\ lLoginFailed
    /\ lCall.m = "uploadFile" /\ lCall.arg = "ok" /\ lCall.quiet
    /\ lCall.out = PRejected("Must be logged in to use this method.")

----------------------------------------------------------------------------
(* Claims about setConfig / removeConfig (SpecConfig) *)

InCriticalSection(i) == gpc[i] \in {"reading", "writing"}

\* The update of caller i is in the file.
UpdateInFile(i) ==
    IF gOp[i].kind = "set" THEN gOp[i].key \in gFile.keys
                           ELSE gOp[i].key \notin gFile.keys

\* C27: at most one caller is between reading and writing the config
\* file, and when concurrent updates to different keys have all completed
\* successfully the file contains all of them.
C27_NoLostUpdate ==
    /\ \A i, j \in DOMAIN gpc : (InCriticalSection(i) /\ InCriticalSection(j)) => i = j
    /\ ((\A i \in DOMAIN gOut : gOut[i] = "resolved")
          /\ (\A i, j \in DOMAIN gOp : i # j => gOp[i].key # gOp[j].key))
        => (gFile.st = "json" /\ \A i \in DOMAIN gOp : UpdateInFile(i))

\* The calls that hold the lock or have not finished releasing it.
Holding == {i \in DOMAIN gpc : gpc[i] \in {"reading", "writing", "unlocking"}}

\* C35: a call of setConfig / removeConfig that took the lock has called
\* unlock when its promise is settled, on whichever path it ended, and
\* holds no lock when the unlock is done; so the lock is free whenever no
\* call is between taking and releasing it, and a call waiting for the
\* lock then gets it.
C35_LockReleasedOnExit ==
    /\ \A i \in DOMAIN gpc :
          /\ gOut[i] \in {"resolved", "rejected"} => gpc[i] \in {"unlocking", "done"}
          /\ gpc[i] = "done" => gLock # i
    /\ Holding = {} => gLock = 0
    /\ \A j \in DOMAIN gpc :
          (gpc[j] = "locking" /\ Holding = {}) =>
              (ENABLED LockAcquired(j) /\ ~ENABLED LockTimedOut(j))

\* C35's case: the first call took the lock and ended on a JSON parse
\* error, and the second call holds the lock after it.
C35_Witness ==
    /\ gExit[1] = "parse error" /\ gpc[1] = "done"
    /\ gLock = 2 /\ gpc[2] = "reading"

----------------------------------------------------------------------------
(* Claims about repeated uploads (SpecRepeat) *)

\* C31: when uploadProject has resolved and neither tree has changed since
\* (the remote tree holds what was uploaded), the next uploadProject
\* computes an empty transfer set and calls uploadFile for no key.
C31_UploadConverges ==
    uRound = 2 => (uKeys = {} /\ uPending = {})

\* C31's case: the first call uploaded a changed file and a new file, the
\* second call has diffed the trees.
C31_Witness ==
    /\ uRound = 2
    /\ \E j, k \in DOMAIN uDisk :
          /\ j # k /\ fileFilter(j) /\ fileFilter(k)
          /\ uDisk[j].type = "file" /\ uDisk[k].type = "file"
          /\ uRemote[j] = uDisk[j] /\ uRemote[k] = uDisk[k]

====